---- MODULE Spec2Model ----
(***************************************************************************)
(* Model of src/index.js: the Express request handlers, the JWT auth gate  *)
(* and the PostgreSQL statements they issue.                               *)
(*                                                                         *)
(* A request occupies a slot.  The synchronous prefix of its handler (the  *)
(* verifyToken middleware, the field validation, the db.query call) is one *)
(* action; the statement then executes atomically in the store (StoreExec, *)
(* or StoreFault when the query promise rejects); the continuation after   *)
(* `await` (Resume) maps the result to the response.  Requests are those   *)
(* that express.json() hands to the router with req.body an object.        *)
(***************************************************************************)
EXTENDS Integers, Sequences, FiniteSets, TLC

\* ------------------------------------------------------------- bounds
MaxInflight == 2
MaxRequests == 3
MaxTicks == 2
MaxBikes == 2
MaxContacts == 1
MaxTokens == 1
\* one step of the clock, in seconds (half a day)
TickSeconds == 43200

\* ------------------------------------------------- program constants
\* expiresIn: "1d", in seconds
Day == 86400

\* process.env.JWT_SECRET || "default_secret_key", with the variable unset
JWT_SECRET == "default_secret_key"

\* ------------------------------------------------------- JS values
Undefined == [t |-> "undefined"]
Str(s) == [t |-> "string", v |-> s]
Num(n) == [t |-> "number", v |-> n]
NaN == [t |-> "NaN"]

IsStr(x) == x.t = "string"

\* JavaScript truthiness of the values the model uses: undefined, "", NaN
\* are falsy; a JWT is a non-empty string.
Truthy(x) ==
  CASE x.t = "undefined" -> FALSE
    [] x.t = "NaN" -> FALSE
    [] x.t = "string" -> x.v # ""
    [] x.t = "number" -> x.v # 0
    [] OTHER -> TRUE

\* req.body.<f>: a key the body does not carry reads as undefined
Field(body, f) == IF f \in DOMAIN body THEN body[f] ELSE Undefined

\* ------------------------------------------------------- path ids
\* A path segment :id is a string, modelled as its sequence of characters.
DigitVal(c) ==
  CASE c = "0" -> 0 [] c = "1" -> 1 [] c = "2" -> 2 [] c = "3" -> 3 [] c = "4" -> 4
    [] c = "5" -> 5 [] c = "6" -> 6 [] c = "7" -> 7 [] c = "8" -> 8 [] c = "9" -> 9
    [] OTHER -> -1

IsDigit(c) == DigitVal(c) >= 0

RECURSIVE DigitPrefix(_)
DigitPrefix(cs) ==
  IF cs = <<>> \/ ~IsDigit(Head(cs)) THEN <<>>
  ELSE <<Head(cs)>> \o DigitPrefix(Tail(cs))

RECURSIVE DecVal(_)
DecVal(ds) ==
  IF ds = <<>> THEN 0
  ELSE 10 * DecVal(SubSeq(ds, 1, Len(ds) - 1)) + DigitVal(ds[Len(ds)])

\* parseInt(id): the value of the longest leading run of digits, NaN when
\* the string does not start with a digit.  Trailing characters are ignored.
ParseInt(cs) ==
  IF DigitPrefix(cs) = <<>> THEN NaN ELSE Num(DecVal(DigitPrefix(cs)))

\* The store's reading of a parameter compared with the integer id column:
\* a number as itself, a string of digits as its value, anything else (NaN,
\* a string with other characters) as a value that equals no id; a store
\* that rejects such a parameter instead is the StoreFault step.  Chars(cs)
\* is the string of a path segment.
Chars(cs) == [t |-> "chars", v |-> cs]

PgInt(x) ==
  CASE x.t = "number" -> x.v
    [] x.t = "chars" /\ x.v # <<>> /\ DigitPrefix(x.v) = x.v -> DecVal(x.v)
    [] OTHER -> -1

\* ------------------------------------------------------- token service
\* HMAC of the payload under a key, as an ideal MAC: equal exactly when
\* payload and key are equal and no byte of it was altered.
Mac(payload, key) == [over |-> payload, key |-> key, flipped |-> FALSE]

JwtSignOneHour(payload, key, t) ==
  LET claims == [userId |-> payload.userId, username |-> payload.username,
                 iat |-> t, exp |-> t + 3600]
  IN [t |-> "jwt", payload |-> claims, sig |-> Mac(claims, key)]

\* jwt.sign(payload, secret, {expiresIn: "1d"}) at clock t
JwtSign(payload, key, t) ==
  LET claims == [userId |-> payload.userId, username |-> payload.username,
                 iat |-> t, exp |-> t + Day]
  IN [t |-> "jwt", payload |-> claims, sig |-> Mac(claims, key)]

JwtVerifyNoExpiry(tok, key, t) ==
  IF tok.t = "jwt" /\ tok.sig = Mac(tok.payload, key)
  THEN [ok |-> TRUE, decoded |-> tok.payload]
  ELSE [ok |-> FALSE, decoded |-> Undefined]

\* jwt.verify(token, secret) at clock t: throws (ok = FALSE) unless the
\* token is a well-formed JWT, its signature is the MAC of its payload under
\* the secret, and the clock has not reached exp.
JwtVerify(tok, key, t) ==
  IF tok.t = "jwt" /\ tok.sig = Mac(tok.payload, key) /\ t < tok.payload.exp
  THEN [ok |-> TRUE, decoded |-> tok.payload]
  ELSE [ok |-> FALSE, decoded |-> Undefined]

\* ------------------------------------------------------------- bcrypt
BcryptHash(pw) == [alg |-> "bcrypt", of |-> pw]

\* bcrypt.compare(data, hash): rejects when data is not a string,
\* otherwise resolves to whether hash is the hash of data.
BcryptCompare(data, hash) ==
  IF ~IsStr(data) THEN [threw |-> TRUE, match |-> FALSE]
  ELSE [threw |-> FALSE, match |-> (hash = BcryptHash(data.v))]

\* SQL LOWER() on the usernames the model uses
Lower(s) ==
  CASE s = "Admin" -> "admin"
    [] s = "ADMIN" -> "admin"
    [] s = "Root" -> "root"
    [] OTHER -> s

\* ---------------------------------------------------------------- state
VARIABLES
  focus,      \* which part of the request space this run draws widely
  admins,     \* table admins (read only)
  bikes,      \* table bikes: id -> row
  nextId,     \* the bikes id sequence
  contacts,   \* table contact_submissions, in insertion order
  now,        \* the clock, in seconds
  slots,      \* the requests in flight and their responses
  nreq,       \* number of requests received so far
  issued,     \* the tokens login has handed out, with the time and the admin row they were signed for
  fresh,      \* id -> body of the POST that created it, while no update or delete touched it
  removedBy   \* id -> slot whose DELETE statement removed the row (0 once that slot serves another request)

vars == <<focus, admins, bikes, nextId, contacts, now, slots, nreq, issued,
          fresh, removedBy>>

Slots == 1..MaxInflight

Columns == <<"url", "name", "model", "engine", "fuel", "color", "warranty">>
ContactColumns == <<"name", "phone", "email", "query">>

ColSet(cols) == {cols[i] : i \in 1..Len(cols)}

\* ------------------------------------------------------------ the store
Stmt(op, params) == [op |-> op, params |-> params]
NoStmt == Stmt("none", <<>>)

RECURSIVE SortedIds(_)
SortedIds(S) ==
  IF S = {} THEN <<>>
  ELSE LET m == CHOOSE x \in S : \A y \in S : x <= y
       IN <<m>> \o SortedIds(S \ {m})

BikeRows(tbl, ids) == [k \in 1..Len(SortedIds(ids)) |-> tbl[SortedIds(ids)[k]]]

\* rows VALUES ($1, ..., $n) for the named columns, with the assigned id
RowOf(cols, params, id) ==
  [c \in ColSet(cols) \cup {"id"} |->
     IF c = "id" THEN id
     ELSE LET i == CHOOSE k \in 1..Len(cols) : cols[k] = c IN params[i].v]

\* ORDER BY submitted_at DESC, later insertions first among equal stamps
RECURSIVE NewestFirst(_)
NewestFirst(rows) ==
  IF rows = <<>> THEN <<>>
  ELSE LET m == CHOOSE k \in 1..Len(rows) :
                  \A j \in 1..Len(rows) :
                     \/ rows[j].submitted_at < rows[k].submitted_at
                     \/ (rows[j].submitted_at = rows[k].submitted_at /\ j <= k)
       IN <<rows[m]>> \o
          NewestFirst([j \in 1..(Len(rows) - 1) |->
                         IF j < m THEN rows[j] ELSE rows[j + 1]])

AdminMatches(tbl, name) ==
  IF ~IsStr(name) THEN {}
  ELSE {a \in tbl : Lower(a.username) = Lower(name.v)}

RECURSIVE AdminRows(_)
AdminRows(S) ==
  IF S = {} THEN <<>>
  ELSE LET m == CHOOSE x \in S : \A y \in S : x.id <= y.id
       IN <<m>> \o AdminRows(S \ {m})

\* The store after a statement and the rows it returns.
Out(rows, b, n, c) == [rows |-> rows, bikes |-> b, nextId |-> n, contacts |-> c]

ExecDeleteKeepsRow(st, b, n, c) ==
  LET i == PgInt(st.params[1])
  IN IF i \in DOMAIN b THEN Out(<<b[i]>>, b, n, c) ELSE Out(<<>>, b, n, c)

\* DELETE FROM bikes WHERE id = $1 RETURNING *
ExecDelete(st, b, n, c) ==
  LET i == PgInt(st.params[1])
  IN IF i \in DOMAIN b
     THEN Out(<<b[i]>>, [k \in DOMAIN b \ {i} |-> b[k]], n, c)
     ELSE Out(<<>>, b, n, c)

\* INSERT INTO bikes (url, ..., warranty) VALUES ($1, ..., $7) RETURNING *
ExecInsertBike(st, b, n, c) ==
  LET row == RowOf(Columns, st.params, n)
  IN Out(<<row>>, [k \in DOMAIN b \cup {n} |-> IF k = n THEN row ELSE b[k]], n + 1, c)

\* UPDATE bikes SET url = $1, ..., warranty = $7 WHERE id = $8 RETURNING *
ExecUpdateBike(st, b, n, c) ==
  LET i == PgInt(st.params[8])
      row == RowOf(Columns, SubSeq(st.params, 1, 7), i)
  IN IF i \in DOMAIN b
     THEN Out(<<row>>, [b EXCEPT ![i] = row], n, c)
     ELSE Out(<<>>, b, n, c)

\* SELECT * FROM bikes WHERE id = $1
ExecSelectBike(st, b, n, c) ==
  LET i == PgInt(st.params[1])
  IN IF i \in DOMAIN b THEN Out(<<b[i]>>, b, n, c) ELSE Out(<<>>, b, n, c)

\* INSERT INTO contact_submissions (name, phone, email, query) VALUES ... RETURNING *
ExecInsertContact(st, b, n, c, t) ==
  LET base == RowOf(ContactColumns, st.params, Len(c) + 1)
      row == [k \in DOMAIN base \cup {"submitted_at"} |->
                IF k = "submitted_at" THEN t ELSE base[k]]
  IN Out(<<row>>, b, n, Append(c, row))

Exec(st, a, b, n, c, t) ==
  CASE st.op = "selectAdmin" -> Out(AdminRows(AdminMatches(a, st.params[1])), b, n, c)
    [] st.op = "insertBike" -> ExecInsertBike(st, b, n, c)
    [] st.op = "updateBike" -> ExecUpdateBike(st, b, n, c)
    [] st.op = "selectBikes" -> Out(BikeRows(b, DOMAIN b), b, n, c)
    [] st.op = "selectBike" -> ExecSelectBike(st, b, n, c)
    [] st.op = "deleteBike" -> ExecDelete(st, b, n, c)
    [] st.op = "insertContact" -> ExecInsertContact(st, b, n, c, t)
    [] st.op = "selectContacts" -> Out(NewestFirst(c), b, n, c)

\* ------------------------------------------------------------ requests
NoRes == [ok |-> TRUE, rows |-> <<>>]
NoResp == [none |-> TRUE]

FreeSlot ==
  [phase |-> "free", route |-> "none", hdr |-> [present |-> FALSE, words |-> <<>>],
   body |-> <<>>, pid |-> <<>>, at |-> 0, present |-> FALSE,
   user |-> Undefined, stmts |-> 0, stmt |-> NoStmt, res |-> NoRes,
   status |-> 0, resp |-> NoResp, nresp |-> 0]

\* a request as the router receives it: method and path (route, pid),
\* the Authorization header and the parsed JSON body; `at` is the time of
\* receipt, kept for a request that presents a token, and `present` whether
\* the addressed listing existed then
NewReq(route, hdr, body, pid, t, present) ==
  [FreeSlot EXCEPT !.phase = "recv", !.route = route, !.hdr = hdr, !.body = body,
                   !.pid = pid, !.at = t, !.present = present]

\* res.status(code).json(body)
Respond(sl, code, body) ==
  [sl EXCEPT !.phase = "done", !.status = code, !.resp = body, !.nresp = @ + 1]

\* await db.query(text, params)
Query(sl, st) == [sl EXCEPT !.phase = "query", !.stmt = st, !.stmts = @ + 1]

Err(msg) == [error |-> msg]

\* JSON of a returned row: text columns as strings, id and time as numbers
RowJson(row) ==
  [c \in DOMAIN row |->
     IF c \in {"id", "submitted_at"} THEN Num(row[c]) ELSE Str(row[c])]

RowsJson(rows) == [k \in 1..Len(rows) |-> RowJson(rows[k])]

\* --------------------------------------------------------- the auth gate
\* authHeader && authHeader.split(" ")[1]
BearerToken(hdr) ==
  IF hdr.present /\ Len(hdr.words) >= 2 THEN hdr.words[2] ELSE Undefined

VerifyTokenNoCheck(sl, key, t) ==
  [sl EXCEPT !.phase = "next"]

\* verifyToken: 401 without a token, 401 when jwt.verify throws, otherwise
\* req.user = decoded and next()
VerifyToken(sl, key, t) ==
  LET token == BearerToken(sl.hdr)
      v == JwtVerify(token, key, t)
  IN IF ~Truthy(token) THEN Respond(sl, 401, Err("No token provided"))
     ELSE IF v.ok THEN [sl EXCEPT !.phase = "next", !.user = v.decoded]
     ELSE Respond(sl, 401, Err("Invalid token"))

\* ------------------------------------------------- handlers, up to await
ValidBikeSkipsWarranty(body) ==
  \A i \in 1..6 : Truthy(Field(body, Columns[i]))

\* !url || !name || !model || !engine || !fuel || !color || !warranty
ValidBike(body) ==
  \A i \in 1..Len(Columns) : Truthy(Field(body, Columns[i]))

BikeParamsSwapped(body) ==
  <<Field(body, "url"), Field(body, "name"), Field(body, "model"),
    Field(body, "engine"), Field(body, "color"), Field(body, "fuel"),
    Field(body, "warranty")>>

\* [url, name, model, engine, fuel, color, warranty]
BikeParams(body) ==
  <<Field(body, "url"), Field(body, "name"), Field(body, "model"),
    Field(body, "engine"), Field(body, "fuel"), Field(body, "color"),
    Field(body, "warranty")>>

ValidContact(body) ==
  \A i \in 1..Len(ContactColumns) : Truthy(Field(body, ContactColumns[i]))

ContactParams(body) ==
  <<Field(body, "name"), Field(body, "phone"), Field(body, "email"),
    Field(body, "query")>>

RootHandler(sl) == Respond(sl, 200, [text |-> "Backend server is running."])

LoginHandler(sl) ==
  Query(sl, Stmt("selectAdmin", <<Field(sl.body, "username")>>))

VerifyTokenHandler(sl, key, t) ==
  LET token == Field(sl.body, "token")
      v == JwtVerify(token, key, t)
  IN IF ~Truthy(token) THEN Respond(sl, 401, Err("No token provided"))
     ELSE IF v.ok THEN Respond(sl, 200, [valid |-> TRUE, user |-> v.decoded])
     ELSE Respond(sl, 401, Err("Invalid token"))

PostBikeHandler(sl) ==
  IF ~ValidBike(sl.body) THEN Respond(sl, 400, Err("All fields are required"))
  ELSE Query(sl, Stmt("insertBike", BikeParams(sl.body)))

PutBikeHandler(sl) ==
  IF ~ValidBike(sl.body) THEN Respond(sl, 400, Err("All fields are required"))
  ELSE Query(sl, Stmt("updateBike", BikeParams(sl.body) \o <<Chars(sl.pid)>>))

GetBikesHandler(sl) == Query(sl, Stmt("selectBikes", <<>>))

GetBikeHandler(sl) == Query(sl, Stmt("selectBike", <<ParseInt(sl.pid)>>))

DeleteBikeHandler(sl) == Query(sl, Stmt("deleteBike", <<ParseInt(sl.pid)>>))

PostContactHandler(sl) ==
  IF ~ValidContact(sl.body) THEN Respond(sl, 400, Err("All fields are required"))
  ELSE Query(sl, Stmt("insertContact", ContactParams(sl.body)))

GetContactSubmissionsHandler(sl) == Query(sl, Stmt("selectContacts", <<>>))


\* ------------------------------------------- handlers, after the await
OnQueryErrorRetry(sl) == Query(sl, sl.stmt)

\* the catch block of every handler
OnQueryError(sl) == Respond(sl, 500, Err("Server error"))

InvalidCredentials == Err("Invalid username or password")

ResumeLogin(sl, key, t) ==
  LET rows == sl.res.rows
      cmp == BcryptCompare(Field(sl.body, "password"), rows[1].password)
  IN IF Len(rows) = 0 THEN Respond(sl, 401, InvalidCredentials)
     ELSE IF cmp.threw THEN OnQueryError(sl)
     ELSE IF ~cmp.match THEN Respond(sl, 401, InvalidCredentials)
     ELSE Respond(sl, 200,
            [message |-> "Login successful",
             token |-> JwtSign([userId |-> rows[1].id, username |-> rows[1].username],
                               key, t)])

ResumePostBike(sl) ==
  Respond(sl, 201, [message |-> "Bike added successfully", bike |-> RowJson(sl.res.rows[1])])

ResumePutBike(sl) ==
  IF Len(sl.res.rows) = 0 THEN Respond(sl, 404, Err("Bike not found"))
  ELSE Respond(sl, 200, [message |-> "Bike updated successfully",
                         bike |-> RowJson(sl.res.rows[1])])

ResumeGetBikes(sl) == Respond(sl, 200, [array |-> RowsJson(sl.res.rows)])

ResumeGetBike(sl) ==
  IF Len(sl.res.rows) = 0 THEN Respond(sl, 404, Err("Bike not found"))
  ELSE Respond(sl, 200, RowJson(sl.res.rows[1]))

ResumeDeleteBikeNoRowCheck(sl) ==
  Respond(sl, 200, [message |-> "Bike deleted successfully"])

ResumeDeleteBike(sl) ==
  IF Len(sl.res.rows) = 0 THEN Respond(sl, 404, Err("Bike not found"))
  ELSE Respond(sl, 200, [message |-> "Bike deleted successfully"])

ResumePostContact(sl) ==
  Respond(sl, 201, [message |-> "Contact form submitted successfully",
                    submission |-> RowJson(sl.res.rows[1])])

ResumeGetContactSubmissions(sl) == Respond(sl, 200, [array |-> RowsJson(sl.res.rows)])

Continue(sl, key, t) ==
  CASE sl.route = "login" -> ResumeLogin(sl, key, t)
    [] sl.route = "postBike" -> ResumePostBike(sl)
    [] sl.route = "putBike" -> ResumePutBike(sl)
    [] sl.route = "getBikes" -> ResumeGetBikes(sl)
    [] sl.route = "getBike" -> ResumeGetBike(sl)
    [] sl.route = "deleteBike" -> ResumeDeleteBike(sl)
    [] sl.route = "postContact" -> ResumePostContact(sl)
    [] sl.route = "getContactSubmissions" -> ResumeGetContactSubmissions(sl)

\* ---------------------------------------------------------------- inputs
Admin1 == [id |-> 1, username |-> "Admin", password |-> BcryptHash("pw1")]
Admin2 == [id |-> 2, username |-> "root", password |-> BcryptHash("pw2")]
AdminTables == {{Admin1}, {Admin1, Admin2}}

Omit(body, f) == [k \in DOMAIN body \ {f} |-> body[k]]

LoginBodies ==
  LET full == {[username |-> Str(u), password |-> Str(p)] :
                 u \in {"admin", "nobody"}, p \in {"pw1", "bad"}}
  IN full \cup {Omit(b, "password") : b \in full}

Bike1 == [url |-> Str("u1"), name |-> Str("n1"), model |-> Str("m1"),
          engine |-> Str("e1"), fuel |-> Str("f1"), color |-> Str("c1"),
          warranty |-> Str("w1")]
Bike2 == [url |-> Str("u2"), name |-> Str("n2"), model |-> Str("m2"),
          engine |-> Str("e2"), fuel |-> Str("f2"), color |-> Str("c2"),
          warranty |-> Str("w2")]

BadBikeBodies ==
  {[Bike1 EXCEPT ![c] = Str("")] : c \in {"url", "warranty"}}
    \cup {Omit(Bike1, c) : c \in ColSet(Columns)}

BikeBodies == {Bike1, Bike2} \cup BadBikeBodies

Contact1 == [name |-> Str("cn"), phone |-> Str("cp"), email |-> Str("ce"),
             query |-> Str("cq")]
ContactBodies == {Contact1, Omit(Contact1, "query")}

PathIds == {<<"1">>, <<"0">>, <<"1", "x">>, <<"x">>}

\* what a client can do to a token it holds
Tamper(tok) == [tok EXCEPT !.sig.flipped = TRUE]

Held == {i.token : i \in issued}
Presentable == Held \cup {Tamper(k) : k \in Held} \cup {Str("garbage")}

NoHeader == [present |-> FALSE, words |-> <<>>]
Bearer(tok) == [present |-> TRUE, words |-> <<Str("Bearer"), tok>>]
Headers ==
  {NoHeader, [present |-> TRUE, words |-> <<Str("Bearer")>>]}
    \cup {Bearer(k) : k \in Presentable}

TokenBodies == {<<>>} \cup {[token |-> k] : k \in Presentable}

\* The inputs of a run.  Each run draws one part of the request space from
\* its whole set and the other parts from one or two representatives.
Focuses == {"auth", "login", "fields", "ids"}

LoginInputs ==
  IF focus = "login" THEN LoginBodies
  ELSE {[username |-> Str("admin"), password |-> Str("pw1")]}

HeaderInputs == IF focus = "auth" THEN Headers ELSE {Bearer(k) : k \in Held}

TokenInputs == IF focus = "auth" THEN TokenBodies ELSE {[token |-> k] : k \in Held}

BikeInputs ==
  CASE focus = "fields" -> BikeBodies
    [] focus = "auth" -> {Bike2, Omit(Bike1, "url")}
    [] OTHER -> {Bike2}

PathInputs == IF focus = "ids" THEN PathIds ELSE {<<"1">>}

\* -------------------------------------------------------------- actions
Idle(sl) == sl.phase \in {"free", "done"}

InFlight(op) == Cardinality({r \in Slots : slots[r].phase = "query" /\ slots[r].stmt.op = op})

\* a request is taken by the lowest slot that never held one, else by the
\* lowest slot whose request has been answered
CanReceive(s) ==
  /\ nreq < MaxRequests
  /\ Idle(slots[s])
  /\ \A r \in Slots : r < s => ~Idle(slots[r]) \/ (slots[r].phase = "done" /\ slots[s].phase = "free")
  /\ slots[s].phase = "done" => \A r \in Slots : slots[r].phase # "free"

Accept(s, sl) ==
  /\ slots' = [slots EXCEPT ![s] = sl]
  /\ nreq' = nreq + 1
  /\ removedBy' = [i \in DOMAIN removedBy |-> IF removedBy[i] = s THEN 0 ELSE removedBy[i]]
  /\ UNCHANGED <<focus, admins, bikes, nextId, contacts, now, issued, fresh>>

Req(route, hdr, body, pid) ==
  NewReq(route, hdr, body, pid,
         IF hdr.present \/ "token" \in DOMAIN body THEN now ELSE 0,
         ParseInt(pid).t = "number" /\ ParseInt(pid).v \in DOMAIN bikes)

WouldSucceed(body) ==
  \E a \in AdminMatches(admins, Field(body, "username")) :
     BcryptCompare(Field(body, "password"), a.password).match

GetRoot(s) ==
  /\ CanReceive(s)
  /\ Accept(s, RootHandler(Req("root", NoHeader, <<>>, <<>>)))

Login(s) ==
  /\ CanReceive(s)
  /\ \E body \in LoginInputs :
       /\ WouldSucceed(body) =>
            Cardinality(issued) + InFlight("selectAdmin") < MaxTokens
       /\ Accept(s, LoginHandler(Req("login", NoHeader, body, <<>>)))

VerifyTokenRoute(s) ==
  /\ CanReceive(s)
  /\ \E body \in TokenInputs :
       Accept(s, VerifyTokenHandler(Req("verifyToken", NoHeader, body, <<>>), JWT_SECRET, now))

PostBike(s) ==
  /\ CanReceive(s)
  /\ nextId + InFlight("insertBike") <= MaxBikes
  /\ \E hdr \in HeaderInputs, body \in BikeInputs :
       LET g == VerifyToken(Req("postBike", hdr, body, <<>>), JWT_SECRET, now)
       IN Accept(s, IF g.phase = "next" THEN PostBikeHandler(g) ELSE g)

PutBike(s) ==
  /\ CanReceive(s)
  /\ \E hdr \in HeaderInputs, body \in BikeInputs, pid \in PathInputs :
       LET g == VerifyToken(Req("putBike", hdr, body, pid), JWT_SECRET, now)
       IN Accept(s, IF g.phase = "next" THEN PutBikeHandler(g) ELSE g)

GetBikes(s) ==
  /\ CanReceive(s)
  /\ Accept(s, GetBikesHandler(Req("getBikes", NoHeader, <<>>, <<>>)))

GetBike(s) ==
  /\ CanReceive(s)
  /\ \E pid \in PathInputs :
       Accept(s, GetBikeHandler(Req("getBike", NoHeader, <<>>, pid)))

DeleteBike(s) ==
  /\ CanReceive(s)
  /\ \E hdr \in HeaderInputs, pid \in PathInputs :
       LET g == VerifyToken(Req("deleteBike", hdr, <<>>, pid), JWT_SECRET, now)
       IN Accept(s, IF g.phase = "next" THEN DeleteBikeHandler(g) ELSE g)

PostContact(s) ==
  /\ CanReceive(s)
  /\ Len(contacts) + InFlight("insertContact") < MaxContacts
  /\ \E body \in ContactBodies :
       Accept(s, PostContactHandler(Req("postContact", NoHeader, body, <<>>)))

GetContactSubmissions(s) ==
  /\ CanReceive(s)
  /\ \E hdr \in HeaderInputs :
       LET g == VerifyToken(Req("getContactSubmissions", hdr, <<>>, <<>>), JWT_SECRET, now)
       IN Accept(s, IF g.phase = "next" THEN GetContactSubmissionsHandler(g) ELSE g)

\* the store executes the statement of slot s, atomically
StoreExec(s) ==
  /\ slots[s].phase = "query"
  /\ LET sl == slots[s]
         out == Exec(sl.stmt, admins, bikes, nextId, contacts, now)
         hit == out.rows # <<>>
         id == IF hit THEN out.rows[1].id ELSE 0
     IN /\ slots' = [slots EXCEPT ![s] = [sl EXCEPT !.phase = "result",
                                           !.res = [ok |-> TRUE, rows |-> out.rows]]]
        /\ bikes' = out.bikes
        /\ nextId' = out.nextId
        /\ contacts' = out.contacts
        /\ fresh' =
             CASE sl.stmt.op = "insertBike" ->
                    [k \in DOMAIN fresh \cup {id} |-> IF k = id THEN sl.body ELSE fresh[k]]
               [] sl.stmt.op \in {"updateBike", "deleteBike"} /\ hit ->
                    [k \in DOMAIN fresh \ {id} |-> fresh[k]]
               [] OTHER -> fresh
        /\ removedBy' =
             IF sl.stmt.op = "deleteBike" /\ hit
             THEN [k \in DOMAIN removedBy \cup {id} |-> IF k = id THEN s ELSE removedBy[k]]
             ELSE removedBy
  /\ UNCHANGED <<focus, admins, now, nreq, issued>>

\* the statement of slot s fails: db.query rejects and the catch block answers
StoreFault(s) ==
  /\ slots[s].phase = "query"
  /\ slots' = [slots EXCEPT ![s] =
                 OnQueryError([slots[s] EXCEPT !.res = [ok |-> FALSE, rows |-> <<>>]])]
  /\ UNCHANGED <<focus, admins, bikes, nextId, contacts, now, nreq, issued, fresh,
                 removedBy>>

\* the handler of slot s continues after its await and answers
Resume(s) ==
  /\ slots[s].phase = "result"
  /\ LET sl == Continue(slots[s], JWT_SECRET, now)
     IN /\ slots' = [slots EXCEPT ![s] = sl]
        /\ issued' =
             IF sl.route = "login" /\ sl.status = 200
             THEN issued \cup {[token |-> sl.resp.token, at |-> now,
                                userId |-> sl.res.rows[1].id,
                                username |-> sl.res.rows[1].username]}
             ELSE issued
  /\ UNCHANGED <<focus, admins, bikes, nextId, contacts, now, nreq, fresh, removedBy>>

Tick ==
  /\ now < MaxTicks * TickSeconds
  /\ now' = now + TickSeconds
  /\ UNCHANGED <<focus, admins, bikes, nextId, contacts, slots, nreq, issued, fresh,
                 removedBy>>

Init ==
  /\ focus \in Focuses
  /\ admins \in (IF focus = "login" THEN AdminTables ELSE {{Admin1}})
  /\ bikes \in (IF focus \in {"fields", "ids"} THEN {<<>>} ELSE {})
               \cup {<<RowOf(Columns, BikeParams(Bike1), 1)>>}
  /\ nextId = Len(bikes) + 1
  /\ contacts = <<>>
  /\ now = 0
  /\ slots = [s \in Slots |-> FreeSlot]
  /\ nreq = 0
  /\ issued = {}
  /\ fresh = <<>>
  /\ removedBy = <<>>

Next ==
  \/ \E s \in Slots : GetRoot(s)
  \/ \E s \in Slots : Login(s)
  \/ \E s \in Slots : VerifyTokenRoute(s)
  \/ \E s \in Slots : PostBike(s)
  \/ \E s \in Slots : PutBike(s)
  \/ \E s \in Slots : GetBikes(s)
  \/ \E s \in Slots : GetBike(s)
  \/ \E s \in Slots : DeleteBike(s)
  \/ \E s \in Slots : PostContact(s)
  \/ \E s \in Slots : GetContactSubmissions(s)
  \/ \E s \in Slots : StoreExec(s)
  \/ \E s \in Slots : StoreFault(s)
  \/ \E s \in Slots : Resume(s)
  \/ Tick

Spec == Init /\ [][Next]_vars

\* ---------------------------------------------------------------- claims
Protected == {"postBike", "putBike", "deleteBike", "getContactSubmissions"}

Rejected401(sl) == sl.phase = "done" /\ sl.status = 401 /\ sl.stmts = 0 /\ sl.nresp = 1

\* the token a request presents: in the Authorization header on a protected
\* route, in the body on /api/verify-token
Presented(sl) ==
  IF sl.route = "verifyToken" THEN Field(sl.body, "token") ELSE BearerToken(sl.hdr)

UsesToken(sl) == sl.route \in Protected \cup {"verifyToken"}

\* C1: on every protected route a request without an Authorization header
\* is answered 401 and issues no store statement.
C1_NoHeaderRejected ==
  \A s \in Slots :
    (slots[s].route \in Protected /\ ~slots[s].hdr.present) => Rejected401(slots[s])

C1_Witness ==
  \E s \in Slots :
    /\ slots[s].route = "deleteBike"
    /\ ~slots[s].hdr.present
    /\ slots[s].status = 401
    /\ slots[s].present

\* C2: a presented token that login did not hand out (tampered, malformed)
\* or that is a day old or older is answered 401 by /api/verify-token and
\* by the gate of every protected route, and no statement is issued.
HandedOut(tok) == \E i \in issued : i.token = tok

Expired(tok, t) == \E i \in issued : i.token = tok /\ t >= i.at + Day

C2_BadTokenRejected ==
  \A s \in Slots :
    (/\ UsesToken(slots[s])
     /\ Truthy(Presented(slots[s]))
     /\ (~HandedOut(Presented(slots[s])) \/ Expired(Presented(slots[s]), slots[s].at)))
    => Rejected401(slots[s])

C2_Witness ==
  \E a, b \in Slots :
    /\ slots[a].route \in Protected
    /\ Expired(Presented(slots[a]), slots[a].at)
    /\ slots[a].status = 401
    /\ slots[b].route = "verifyToken"
    /\ \E k \in Held : Presented(slots[b]) = Tamper(k)
    /\ slots[b].status = 401

\* C3: an authenticated create or update whose body lacks one of the seven
\* fields, or carries it empty, is answered 400 and issues no statement.
LacksField(body) ==
  \E c \in {"url", "name", "model", "engine", "fuel", "color", "warranty"} :
    c \notin DOMAIN body \/ body[c] = Str("")

C3_MissingFieldRejected ==
  \A s \in Slots :
    (/\ slots[s].route \in {"postBike", "putBike"}
     /\ slots[s].user # Undefined
     /\ LacksField(slots[s].body))
    => /\ slots[s].phase = "done"
       /\ slots[s].status = 400
       /\ slots[s].stmts = 0

C3_Witness ==
  \E a, b \in Slots :
    /\ slots[a].route = "putBike" /\ slots[b].route = "postBike"
    /\ slots[a].user # Undefined /\ slots[b].user # Undefined
    /\ "warranty" \notin DOMAIN slots[a].body
    /\ Field(slots[b].body, "url") = Str("")
    /\ slots[a].status = 400 /\ slots[b].status = 400

\* C4: GET and DELETE /api/bikes/:id answer 404 when the id is not numeric
\* and when it is numeric and matches no row (the statement not failing).
NonNumeric(pid) == \E k \in 1..Len(pid) : pid[k] \notin {"0", "1", "2", "3", "4", "5", "6", "7", "8", "9"}

C4_BadIdIs404 ==
  \A s \in Slots :
    (/\ slots[s].route \in {"getBike", "deleteBike"}
     /\ slots[s].phase = "done"
     /\ slots[s].stmts = 1
     /\ slots[s].res.ok
     /\ (NonNumeric(slots[s].pid) \/ slots[s].res.rows = <<>>))
    => slots[s].status = 404

\* C5: a login with an existing username and a wrong password and a login
\* with a nonexistent username get the same response, a 401.
WrongPassword(sl) ==
  /\ sl.res.rows # <<>>
  /\ Field(sl.body, "password") # Str(sl.res.rows[1].password.of)

C5_LoginFailuresAlike ==
  \A a, b \in Slots :
    (/\ slots[a].route = "login" /\ slots[b].route = "login"
     /\ slots[a].phase = "done" /\ slots[b].phase = "done"
     /\ slots[a].res.ok /\ slots[b].res.ok
     /\ WrongPassword(slots[a])
     /\ slots[b].res.rows = <<>>)
    => /\ slots[a].status = 401
       /\ slots[b].status = 401
       /\ slots[a].resp = slots[b].resp

\* C6: a token handed out by login and presented to /api/verify-token less
\* than a day later is answered 200 with valid: true and the id and
\* username of the administrator row it was issued for.
C6_IssuedTokenAccepted ==
  \A s \in Slots :
    \A i \in issued :
      (/\ slots[s].route = "verifyToken"
       /\ Presented(slots[s]) = i.token
       /\ slots[s].at < i.at + Day)
      => /\ slots[s].phase = "done"
         /\ slots[s].status = 200
         /\ slots[s].resp.valid
         /\ slots[s].resp.user.userId = i.userId
         /\ slots[s].resp.user.username = i.username

C6_Witness ==
  \E s \in Slots :
    \E i \in issued :
      /\ slots[s].route = "verifyToken"
      /\ Presented(slots[s]) = i.token
      /\ slots[s].at > i.at
      /\ slots[s].status = 200
      /\ contacts # <<>>

\* the steps of a request in slot s
ExecStep(s) == slots[s].phase = "query" /\ slots'[s].phase = "result"
ResumeStep(s) == slots[s].phase = "result" /\ slots'[s].phase = "done"

\* the numeric id a GET or DELETE statement addresses (-1: none)
Target(sl) ==
  IF sl.stmt.op \in {"selectBike", "deleteBike"} /\ sl.stmt.params[1].t = "number"
  THEN sl.stmt.params[1].v ELSE -1

SevenFields == {"url", "name", "model", "engine", "fuel", "color", "warranty"}

\* C7: once a DELETE statement has removed the row of an id, the id is in
\* the table never again, a later GET or DELETE statement for it finds no
\* row, and finding no row is answered 404.
C7_DeletedStaysGone ==
  [][/\ \A i \in DOMAIN removedBy' : i \notin DOMAIN bikes'
     /\ \A s \in Slots :
          /\ (ExecStep(s) /\ Target(slots[s]) \in DOMAIN removedBy)
               => slots'[s].res.rows = <<>>
          /\ (/\ ResumeStep(s)
              /\ Target(slots[s]) \in DOMAIN removedBy
              /\ slots[s].res.rows = <<>>)
               => slots'[s].status = 404]_vars

C7_Witness ==
  \E a, b \in Slots :
    /\ slots[a].route = "deleteBike" /\ slots[a].status = 200
    /\ Target(slots[a]) \in DOMAIN removedBy
    /\ removedBy[Target(slots[a])] = a
    /\ slots[b].route = "deleteBike" /\ Target(slots[b]) = Target(slots[a])
    /\ ~slots[b].present
    /\ slots[b].res.ok /\ slots[b].stmts = 1
    /\ slots[b].status = 404

\* C8: a create is answered 201 with the submitted fields; while no update
\* or delete has touched the created id, a GET statement for it returns one
\* row equal in the seven fields to the submitted body, and the GET answers
\* 200 with that row.
C8_RoundTrip ==
  [][\A s \in Slots :
       /\ (ResumeStep(s) /\ slots[s].route = "postBike")
            => /\ slots'[s].status = 201
               /\ \A c \in SevenFields : slots'[s].resp.bike[c] = slots[s].body[c]
       /\ (/\ ExecStep(s)
           /\ slots[s].route = "getBike"
           /\ Target(slots[s]) \in DOMAIN fresh)
            => /\ Len(slots'[s].res.rows) = 1
               /\ slots'[s].res.rows[1].id = Target(slots[s])
               /\ \A c \in SevenFields :
                    Str(slots'[s].res.rows[1][c]) = fresh[Target(slots[s])][c]
       /\ (/\ ResumeStep(s)
           /\ slots[s].route = "getBike"
           /\ Len(slots[s].res.rows) = 1)
            => /\ slots'[s].status = 200
               /\ slots'[s].resp.id = Num(slots[s].res.rows[1].id)
               /\ \A c \in SevenFields :
                    slots'[s].resp[c] = Str(slots[s].res.rows[1][c])]_vars

C8_Witness ==
  \E a, b \in Slots :
    /\ slots[a].route = "postBike" /\ slots[a].status = 201
    /\ slots[b].route = "getBike" /\ slots[b].status = 200
    /\ slots[b].resp.id = slots[a].resp.bike.id
    /\ slots[b].resp.id.v \in DOMAIN fresh
    /\ \A c \in SevenFields : slots[b].resp[c] = slots[a].body[c]

\* C9: a request issues at most one statement and gets at most one
\* response; when its statement fails it is answered once, with 500 and a
\* body of the one key error, and its slot is released.
C9_OneStatementNoRetry ==
  \A s \in Slots :
    /\ slots[s].stmts <= 1
    /\ slots[s].nresp <= 1
    /\ (slots[s].phase = "done") <=> (slots[s].nresp = 1)
    /\ ~slots[s].res.ok
         => /\ slots[s].phase = "done"
            /\ slots[s].stmts = 1
            /\ slots[s].status = 500
            /\ DOMAIN slots[s].resp = {"error"}

C9_Witness ==
  \E a, b \in Slots :
    /\ ~slots[a].res.ok /\ slots[a].route = "putBike" /\ slots[a].status = 500
    /\ slots[b].phase = "done" /\ slots[b].stmts = 1 /\ slots[b].res.ok
    /\ slots[b].status = 200

\* C10: of two DELETE requests for the same id, both received while the
\* listing existed and both executed without a store failure, one of which
\* removed the row, exactly one is answered 200 and the other 404, and the
\* listing is absent afterwards.
RacingDeletes(a, b) ==
  /\ a # b
  /\ slots[a].route = "deleteBike" /\ slots[b].route = "deleteBike"
  /\ slots[a].phase = "done" /\ slots[b].phase = "done"
  /\ slots[a].stmts = 1 /\ slots[b].stmts = 1
  /\ slots[a].res.ok /\ slots[b].res.ok
  /\ slots[a].present /\ slots[b].present
  /\ Target(slots[a]) = Target(slots[b])
  /\ Target(slots[a]) \in DOMAIN removedBy
  /\ removedBy[Target(slots[a])] \in {a, b}

C10_OneDeleteWins ==
  \A a, b \in Slots :
    RacingDeletes(a, b)
    => /\ {slots[a].status, slots[b].status} = {200, 404}
       /\ Target(slots[a]) \notin DOMAIN bikes

C10_Witness == \E a, b \in Slots : RacingDeletes(a, b) /\ slots[a].status = 404

====
